---- MODULE Spec2Model ----
(***************************************************************************)
(* The create-project modal of components/Modals/ProjectModal.tsx: the     *)
(* zod validation schema, the submission workflow handleCreateProject and  *)
(* the presence guard validateProjectPresence, as a state machine driven   *)
(* by the UI events (submit, cancel, backdrop close) and by the            *)
(* completions of the remote mutation createProjectAsync.                  *)
(*                                                                         *)
(* Names, subdomains and paths are TLA+ strings.  Error messages and field *)
(* messages are sequences of one-character strings, because the message    *)
(* the code looks for holds the character U+0060, which a TLA+ string      *)
(* cannot hold; that character is the element Backtick.                    *)
(***************************************************************************)
EXTENDS Integers, Sequences, FiniteSets, TLC

VARIABLES
  loading,    \* useState(false): the in-flight flag
  isOpen,     \* projectModal.isCreateProjectModalOpen
  projects,   \* useUserProjects().projects: <<>> is undefined, <<l>> the list l
  errors,     \* the form's field errors: per field <<>> or <<message>>
  toast,      \* the notification whose id is 'create-project'
  pushed,     \* the paths given to router.push, in order
  calls,      \* the createProjectAsync calls started and not yet settled
  started,    \* how many createProjectAsync calls were started
  ev          \* the handler that ran last, with its input

vars == <<loading, isOpen, projects, errors, toast, pushed, calls, started, ev>>

----------------------------------------------------------------------------
(* Bounds of the model *)

MaxSubmits == 2
MaxNameLen == 18
MaxProjects == 1
MaxSubdomainLen == 3

(* Constants of the validation schema *)

NameMin == 3
NameMax == 17
SubdomainMin == 3

----------------------------------------------------------------------------
(* Strings *)

Chars(s) == [i \in 1..Len(s) |-> SubSeq(s, i, i)]

Backtick == "U+0060"

\* String.prototype.includes
Includes(hay, needle) ==
  \E i \in 1..(Len(hay) + 1) :
    /\ i + Len(needle) - 1 <= Len(hay)
    /\ SubSeq(hay, i, i + Len(needle) - 1) = needle

LowerCase == {"a","b","c","d","e","f","g","h","i","j","k","l","m",
              "n","o","p","q","r","s","t","u","v","w","x","y","z"}
UpperCase == {"A","B","C","D","E","F","G","H","I","J","K","L","M",
              "N","O","P","Q","R","S","T","U","V","W","X","Y","Z"}
Digits == {"0","1","2","3","4","5","6","7","8","9"}

\* /^[a-zA-Z0-9]+$/.test(s)
SubdomainRegex(s) ==
  /\ Len(s) >= 1
  /\ \A i \in 1..Len(s) : SubSeq(s, i, i) \in LowerCase \cup UpperCase \cup Digits

----------------------------------------------------------------------------
(* formSchema: the issues zod reports for a field, in the order of the     *)
(* checks; a failed check does not stop the later ones.                    *)

NameTooShort == Chars("Project name must be atleast 3 characters long")
NameTooLong == Chars("Project name must be less than 17 characters")
SubdomainTooShort == Chars("Project subdomain must be atleast 3 characters long")
SubdomainNotAlnum == Chars("Project subdomain must only contain letters and numbers")

\* nameIssues with the upper check taken as exclusive ("less than 17")
nameIssuesExclusiveMax(name) ==
  (IF Len(name) < NameMin THEN <<NameTooShort>> ELSE <<>>)
    \o (IF Len(name) >= NameMax THEN <<NameTooLong>> ELSE <<>>)

nameIssues(name) ==
  (IF Len(name) < NameMin THEN <<NameTooShort>> ELSE <<>>)
    \o (IF Len(name) > NameMax THEN <<NameTooLong>> ELSE <<>>)

subdomainIssues(subdomain) ==
  (IF Len(subdomain) < SubdomainMin THEN <<SubdomainTooShort>> ELSE <<>>)
    \o (IF ~SubdomainRegex(subdomain) THEN <<SubdomainNotAlnum>> ELSE <<>>)

formSchema(values) ==
  [name |-> nameIssues(values.name), subdomain |-> subdomainIssues(values.subdomain)]

\* zodResolver(formSchema): the field error is the first issue of the field
FirstIssue(issues) == IF issues = <<>> THEN <<>> ELSE <<Head(issues)>>

resolver(values) ==
  [name |-> FirstIssue(formSchema(values).name),
   subdomain |-> FirstIssue(formSchema(values).subdomain)]

NoErrors == [name |-> <<>>, subdomain |-> <<>>]

----------------------------------------------------------------------------
(* The inputs of the model *)

NamePattern == "My Project #1!"

RECURSIVE NameOfLen(_)
NameOfLen(n) ==
  IF n = 0 THEN ""
  ELSE LET k == ((n - 1) % Len(NamePattern)) + 1
       IN  NameOfLen(n - 1) \o SubSeq(NamePattern, k, k)

Names == {NameOfLen(n) : n \in 0..MaxNameLen}

SubdomainChars == {"a", "7", "-"}

RECURSIVE StringsUpTo(_)
StringsUpTo(n) ==
  IF n = 0 THEN {""}
  ELSE StringsUpTo(n - 1) \cup {s \o c : s \in StringsUpTo(n - 1), c \in SubdomainChars}

Subdomains ==
  StringsUpTo(MaxSubdomainLen) \cup {"aZ7", "ABC123xyz", "my site", "abc\n", "ab_cd", "Z"}

DefaultValues == [name |-> "", subdomain |-> ""]

\* every candidate input the schema is applied to
Candidates == [name : Names, subdomain : Subdomains]

\* the values the form is submitted with: the untouched form, names at the
\* edges of the length range, subdomains that pass and fail each check
FormValues ==
  {DefaultValues}
    \cup {[name |-> NameOfLen(n), subdomain |-> "acme"] :
            n \in {NameMin - 1, NameMin, NameMax, NameMax + 1}}
    \cup {[name |-> "My Project", subdomain |-> s] :
            s \in {"ab", "a-c", "aZ7", "my site"}}

\* the lists useUserProjects can give: undefined, or a list of projects
ProjectLists ==
  {<<>>} \cup {<<[i \in 1..n |-> "project"]>> : n \in 0..MaxProjects}

\* what createProjectAsync can resolve with for an input
Results(input) ==
  {[createProject |-> <<>>]}
    \cup {[createProject |-> <<[id |-> i, subdomain |-> s]>>] :
            i \in {"", "p1"}, s \in {input.subdomain, "echo"}}

UniqueConstraint ==
  Chars("Unique constraint failed on the fields: (")
    \o <<Backtick>> \o Chars("subdomain") \o <<Backtick>> \o Chars(")")

Messages ==
  { UniqueConstraint,
    Chars("Invalid invocation: ") \o UniqueConstraint \o Chars(" at create"),
    Chars("Unique constraint failed on the fields: (")
      \o <<Backtick>> \o Chars("name") \o <<Backtick>> \o Chars(")"),
    Chars("Unique constraint failed on the fields: (subdomain)"),
    Chars("Network unreachable"),
    <<>> }

\* what createProjectAsync can reject with: an Error, or any other value
Thrown == [isError : BOOLEAN, message : Messages]

----------------------------------------------------------------------------
(* The notification whose id is 'create-project' *)

NoToast == [type |-> "none", message |-> ""]
ToastLoading == [type |-> "loading", message |-> "Creating project..."]
ToastSuccess == [type |-> "success", message |-> "Project created successfully"]
ToastError == [type |-> "error", message |-> "Something went wrong"]

NoEvent == [op |-> "init", call |-> <<>>, arg |-> <<>>]

\* the store's flag is whatever the caller left it; the rest is as constructed
Init ==
  /\ loading = FALSE
  /\ isOpen \in BOOLEAN
  /\ projects \in ProjectLists
  /\ errors = NoErrors
  /\ toast = NoToast
  /\ pushed = [count |-> 0, last |-> ""]
  /\ calls = {}
  /\ started = 0
  /\ ev = NoEvent

----------------------------------------------------------------------------
(* The store's closeCreateProjectModal and openCreateProjectModal *)

closeCreateProjectModal == isOpen' = FALSE

OpenModal ==
  /\ ~isOpen
  /\ isOpen' = TRUE
  /\ ev' = [op |-> "open", call |-> <<>>, arg |-> <<>>]
  /\ UNCHANGED <<loading, projects, errors, toast, pushed, calls, started>>

\* useUserProjects gives a new list
LoadProjects ==
  /\ \E l \in ProjectLists : l # projects /\ projects' = l
  /\ ev' = [op |-> "projects", call |-> <<>>, arg |-> <<>>]
  /\ UNCHANGED <<loading, isOpen, errors, toast, pushed, calls, started>>

----------------------------------------------------------------------------
(* The presence guard *)

\* HasProjects without the length test: an empty list is truthy
HasProjectsTruthy == projects # <<>>

HasProjects == projects # <<>> /\ Len(projects[1]) > 0

validateProjectPresence ==
  IF HasProjects THEN closeCreateProjectModal ELSE UNCHANGED isOpen

\* Modal onClose: the modal's own dismiss affordance
ModalClose ==
  /\ isOpen
  /\ validateProjectPresence
  /\ ev' = [op |-> "dismiss", call |-> <<>>, arg |-> "modal"]
  /\ UNCHANGED <<loading, projects, errors, toast, pushed, calls, started>>

\* the Cancel button, disabled while loading
Cancel ==
  /\ isOpen
  /\ ~loading
  /\ validateProjectPresence
  /\ ev' = [op |-> "dismiss", call |-> <<>>, arg |-> "cancel"]
  /\ UNCHANGED <<loading, projects, errors, toast, pushed, calls, started>>

----------------------------------------------------------------------------
(* The submission workflow *)

\* SubmitEnabled with the Continue button never disabled
SubmitEnabledWhileLoading == isOpen

\* the Continue button, disabled while loading
SubmitEnabled == isOpen /\ ~loading

\* handleCreateProject up to the await of createProjectAsync
handleCreateProject(values) ==
  /\ started < MaxSubmits
  /\ loading' = TRUE
  /\ toast' = ToastLoading
  /\ calls' = calls \cup
       {[id |-> started + 1,
         input |-> [name |-> values.name, subdomain |-> values.subdomain]]}
  /\ started' = started + 1
  /\ UNCHANGED <<isOpen, projects, pushed>>

\* PassesResolver with only the name field checked
PassesResolverNameOnly(values) == resolver(values).name = <<>>

\* whether form.handleSubmit calls its handler
PassesResolver(values) == resolver(values) = NoErrors

\* form.handleSubmit(handleCreateProject)
Submit(values) ==
  /\ SubmitEnabled
  /\ errors' = resolver(values)
  /\ ev' = [op |-> "submit", call |-> <<>>, arg |-> values]
  /\ IF PassesResolver(values)
     THEN handleCreateProject(values)
     ELSE UNCHANGED <<loading, isOpen, projects, toast, pushed, calls, started>>

\* HasId with the test on createProject instead of on its id
HasIdAnyProject(res) == res.createProject # <<>>

HasId(res) == res.createProject # <<>> /\ res.createProject[1].id # ""

DashboardPath(subdomain) == "/dashboard/" \o subdomain

\* Resolved with the path built from the submitted subdomain
ResolvedSubmittedSubdomain(c, res) ==
  /\ IF HasId(res)
     THEN /\ toast' = ToastSuccess
          /\ pushed' = [count |-> pushed.count + 1,
                        last |-> DashboardPath(c.input.subdomain)]
     ELSE UNCHANGED <<toast, pushed>>
  /\ closeCreateProjectModal
  /\ loading' = FALSE
  /\ UNCHANGED errors

\* handleCreateProject after createProjectAsync resolved with res
Resolved(c, res) ==
  /\ IF HasId(res)
     THEN /\ toast' = ToastSuccess
          /\ pushed' = [count |-> pushed.count + 1,
                        last |-> DashboardPath(res.createProject[1].subdomain)]
     ELSE UNCHANGED <<toast, pushed>>
  /\ closeCreateProjectModal
  /\ loading' = FALSE
  /\ UNCHANGED errors

\* IsError with any value that carries a message taken for an Error
IsErrorHasMessage(error) == error.isError \/ error.message # <<>>

IsError(error) == error.isError

FieldMessage(error) ==
  IF Includes(error.message, UniqueConstraint)
  THEN Chars("Project subdomain already exists")
  ELSE error.message

\* Rejected with the flag reset on the success path only (no finally)
RejectedNoFinally(c, error) ==
  /\ IF IsError(error)
     THEN /\ errors' = [errors EXCEPT !.subdomain = <<FieldMessage(error)>>]
          /\ toast' = NoToast
          /\ UNCHANGED isOpen
     ELSE /\ toast' = ToastError
          /\ closeCreateProjectModal
          /\ UNCHANGED errors
  /\ UNCHANGED loading
  /\ UNCHANGED pushed

\* handleCreateProject after createProjectAsync rejected with error
Rejected(c, error) ==
  /\ IF IsError(error)
     THEN /\ errors' = [errors EXCEPT !.subdomain = <<FieldMessage(error)>>]
          /\ toast' = NoToast
          /\ UNCHANGED isOpen
     ELSE /\ toast' = ToastError
          /\ closeCreateProjectModal
          /\ UNCHANGED errors
  /\ loading' = FALSE
  /\ UNCHANGED pushed

Resolve ==
  \E c \in calls : \E res \in Results(c.input) :
    /\ Resolved(c, res)
    /\ calls' = calls \ {c}
    /\ ev' = [op |-> "resolve", call |-> c, arg |-> res]
    /\ UNCHANGED <<projects, started>>

Reject ==
  \E c \in calls : \E error \in Thrown :
    /\ Rejected(c, error)
    /\ calls' = calls \ {c}
    /\ ev' = [op |-> "reject", call |-> c, arg |-> error]
    /\ UNCHANGED <<projects, started>>

Next ==
  \/ \E values \in FormValues : Submit(values)
  \/ Resolve
  \/ Reject
  \/ ModalClose
  \/ Cancel
  \/ OpenModal
  \/ LoadProjects

Spec == Init /\ [][Next]_vars

----------------------------------------------------------------------------
(* The schema on its own: the resolver applied once to a candidate input *)

InitSchema ==
  /\ loading = FALSE
  /\ isOpen = TRUE
  /\ projects = <<>>
  /\ errors = NoErrors
  /\ toast = NoToast
  /\ pushed = [count |-> 0, last |-> ""]
  /\ calls = {}
  /\ started = 0
  /\ ev \in {[op |-> "candidate", call |-> <<>>, arg |-> values] : values \in Candidates}

Parse ==
  /\ ev.op = "candidate"
  /\ errors' = resolver(ev.arg)
  /\ ev' = [ev EXCEPT !.op = "parse"]
  /\ UNCHANGED <<loading, isOpen, projects, toast, pushed, calls, started>>

NextSchema == Parse

SpecSchema == InitSchema /\ [][NextSchema]_vars

----------------------------------------------------------------------------
(* The properties *)

Alnum == "abcdefghijklmnopqrstuvwxyzABCDEFGHIJKLMNOPQRSTUVWXYZ0123456789"

OnlyLettersAndDigits(s) ==
  \A i \in 1..Len(s) : \E j \in 1..Len(Alnum) : SubSeq(s, i, i) = SubSeq(Alnum, j, j)

SatisfiesSchema(v) ==
  /\ Len(v.name) >= 3
  /\ Len(v.name) <= 17
  /\ Len(v.subdomain) >= 3
  /\ OnlyLettersAndDigits(v.subdomain)

ResultHasId(res) ==
  \E p \in {res.createProject[i] : i \in 1..Len(res.createProject)} : p.id # ""

\* C1: in every reachable state at most one createProjectAsync call has been
\* started and has neither resolved nor rejected.
C1_AtMostOneInFlight == Cardinality(calls) <= 1

\* a second submission is in flight after the first one has completed
C1_Witness == Cardinality(calls) = 1 /\ started >= 2 /\ loading

\* C2: when the mutation resolves with a non-empty createProject.id, the
\* workflow pushes /dashboard/{s}, s being the subdomain of the result, and
\* the modal is closed.
C2_SuccessNavigates ==
  [][(ev'.op = "resolve" /\ ResultHasId(ev'.arg))
       => /\ pushed'.count = pushed.count + 1
          /\ pushed'.last = "/dashboard/" \o ev'.arg.createProject[1].subdomain
          /\ ~isOpen']_vars

\* a result whose subdomain differs from the submitted one has been navigated to
C2_Witness ==
  /\ ev.op = "resolve"
  /\ ResultHasId(ev.arg)
  /\ ev.arg.createProject[1].subdomain # ev.call.input.subdomain
  /\ pushed.last = "/dashboard/echo"
  /\ ~isOpen

\* C3: when the mutation rejects with an Error of message m, the subdomain
\* field error is 'Project subdomain already exists' if m contains the
\* unique-constraint text and m otherwise, the modal is open once the
\* submission has completed, and nothing is pushed.
C3_ErrorKeepsModalOpen ==
  [][(ev'.op = "reject" /\ ev'.arg.isError)
       => /\ errors'.subdomain =
               <<IF Includes(ev'.arg.message, UniqueConstraint)
                 THEN Chars("Project subdomain already exists")
                 ELSE ev'.arg.message>>
          /\ isOpen'
          /\ pushed' = pushed]_vars

\* C4: when the mutation rejects with a value that is not an Error, the
\* notification 'create-project' becomes the generic failure, the modal is
\* closed and the field errors are left as they were.
C4_NonErrorClosesModal ==
  [][(ev'.op = "reject" /\ ~ev'.arg.isError)
       => /\ toast' = [type |-> "error", message |-> "Something went wrong"]
          /\ ~isOpen'
          /\ errors' = errors]_vars

\* a thrown non-Error that carries the unique-constraint message
C4_Witness ==
  /\ ev.op = "reject"
  /\ ~ev.arg.isError
  /\ ev.arg.message = UniqueConstraint
  /\ toast.type = "error"
  /\ ~isOpen
  /\ errors = NoErrors

\* C5: whenever the mutation of a submission resolves or rejects, the
\* in-flight flag, true until then, is false once the workflow has finished.
C5_LoadingReset ==
  [][(ev'.op \in {"resolve", "reject"}) => (loading /\ ~loading')]_vars

\* a submission that was rejected with an Error has returned to idle
C5_Witness ==
  ev.op = "reject" /\ ev.arg.isError /\ ~loading /\ calls = {}

\* C6: a dismiss request closes the modal if the known project list is
\* non-empty and leaves the open state as it was if the list is empty or
\* not yet known.
C6_DismissNeedsProject ==
  [][(ev'.op = "dismiss")
       => isOpen' = (IF \E l \in {projects[i] : i \in 1..Len(projects)} : Len(l) >= 1
                     THEN FALSE
                     ELSE isOpen)]_vars

\* a dismiss request with a known, empty project list has left the modal open
C6_Witness == ev.op = "dismiss" /\ projects = << <<>> >> /\ isOpen

\* C7: the mutation is only ever called with an input that satisfies the
\* schema, and a submit with an input that violates it starts no call, leaves
\* the in-flight flag and the notification as they were.
C7_InvalidNeverSent ==
  [][/\ \A c \in calls' : SatisfiesSchema(c.input)
     /\ (ev'.op = "submit" /\ ~SatisfiesSchema(ev'.arg))
          => /\ calls' = calls
             /\ started' = started
             /\ loading' = loading
             /\ toast' = toast]_vars

\* a submit with a subdomain that violates the schema has been turned down
C7_Witness ==
  /\ ev.op = "submit"
  /\ Len(ev.arg.name) >= 3
  /\ ~OnlyLettersAndDigits(ev.arg.subdomain)
  /\ errors.subdomain # <<>>
  /\ calls = {}
  /\ ~loading

\* C8: validation accepts the name exactly when its length is in [3,17] and
\* the subdomain exactly when its length is at least 3 and it holds only
\* ASCII letters and digits; a name shorter than 3 gets the 'too short'
\* message and a name longer than 17 the 'too long' message.
C8_SchemaAccepts ==
  ev.op = "parse" =>
    /\ (errors.name = <<>>) <=> (Len(ev.arg.name) >= 3 /\ Len(ev.arg.name) <= 17)
    /\ Len(ev.arg.name) < 3 =>
         errors.name = <<Chars("Project name must be atleast 3 characters long")>>
    /\ Len(ev.arg.name) > 17 =>
         errors.name = <<Chars("Project name must be less than 17 characters")>>
    /\ (errors.subdomain = <<>>) <=>
         (Len(ev.arg.subdomain) >= 3 /\ OnlyLettersAndDigits(ev.arg.subdomain))

\* a name of 17 characters, not all letters, accepted beside a rejected subdomain
C8_Witness ==
  /\ ev.op = "parse"
  /\ Len(ev.arg.name) = 17
  /\ ~OnlyLettersAndDigits(ev.arg.name)
  /\ errors.name = <<>>
  /\ ev.arg.subdomain = "ab_cd"
  /\ errors.subdomain # <<>>

\* C9: when the mutation resolves with a result that has no non-empty
\* createProject.id, the modal is closed, nothing is pushed and the
\* notification does not become the success notification.
C9_NoIdStillCloses ==
  [][(ev'.op = "resolve" /\ ~ResultHasId(ev'.arg))
       => /\ ~isOpen'
          /\ pushed' = pushed
          /\ toast'.type # "success"]_vars

\* a result whose createProject has an empty id has closed the modal
C9_Witness ==
  /\ ev.op = "resolve"
  /\ ev.arg.createProject # <<>>
  /\ ev.arg.createProject[1].id = ""
  /\ ~isOpen
  /\ pushed.count = 0

\* C10: in every state in which the in-flight flag is false, the notification
\* 'create-project' is not the 'Creating project...' loading notification.
C10_LoadingToastCleared ==
  ~loading => toast # [type |-> "loading", message |-> "Creating project..."]

====
